---- MODULE Spec2Model ----
(***************************************************************************)
(* Shopping cart of the storefront template.                               *)
(*                                                                         *)
(*   - the local cart store (zustand store `useCartStore`, stores/cart)    *)
(*   - the checkout orchestration of CartSidebar.handleCheckout            *)
(*   - the POST /api/cart route and ShopifyCartService behind it           *)
(*                                                                         *)
(* Money is held in integer cents (a price of 50.00 is 5000); the          *)
(* intermediate products of calculateTotals are held in thousandths of a   *)
(* cent so that the 8.5% tax and Math.round are computed exactly.  The     *)
(* program computes in binary64; the rounding of a value that is not on a  *)
(* half-cent tie is the rounding of the exact value, and the ties are      *)
(* rounded as binary64 rounds them (TotalTieBelowHalf).                    *)
(***************************************************************************)
EXTENDS Integers, Sequences, FiniteSets, TLC

(***************************************************************************)
(* Bounds of the model                                                     *)
(***************************************************************************)
\* largest value of Date.now() the clock reaches
MaxTime == 1
\* largest quantity argument passed to addItem / updateQuantity
MaxQtyArg == 1
\* largest quantity a line reaches
MaxLineQty == 2
\* largest number of remote carts the provider creates
MaxCarts == 2

(***************************************************************************)
(* Program constants                                                       *)
(***************************************************************************)
\* addItem: (product, quantity = 1, variantId?)
DefaultQuantity == 1
\* const tax = subtotal * 0.085, as thousandths
TaxRateMills == 85
\* subtotal >= 100 ? 0 : 10, in cents
FreeShippingThreshold == 10000
ShippingFee == 1000

\* JavaScript's undefined and the empty string (both falsy)
Undefined == "undefined"
EmptyStr == ""
\* JavaScript's null
Null == "null"

(***************************************************************************)
(* Reference data: Product snapshots (services/types.ts)                   *)
(***************************************************************************)
ProductP1 == [id |-> "p1", price |-> 5000, variants |-> <<"v1", "v2">>]
ProductP2 == [id |-> "p2", price |-> 2000, variants |-> <<>>]
Catalog == {ProductP1, ProductP2}

\* quantity arguments a caller may pass, zero and negative included
QtyArgs == (0 - 1)..MaxQtyArg
\* variantId arguments a caller may pass with a product: none, the empty
\* string, or the id of one of the product's variants
VariantArgs(product) ==
  {Undefined, EmptyStr} \cup {product.variants[i] : i \in DOMAIN product.variants}
\* line ids are `cart-item-${Date.now()}`: the id is modelled by its timestamp
IdArgs == 0..MaxTime
\* quantities a line may hold within the bounds
LineQtys == 0..MaxLineQty

VARIABLES
  items,      \* CartState.items
  isOpen,     \* CartState.isOpen
  itemCount,  \* CartState.itemCount
  subtotal,   \* CartState.subtotal (cents)
  tax,        \* CartState.tax (cents)
  shipping,   \* CartState.shipping (cents)
  total,      \* CartState.total (cents)
  storage,    \* localStorage['eonlife-cart-storage']: <<>> or <<record>>
  now,        \* Date.now()
  loaded,     \* history of SpecStore: its last step was a page load
  op,         \* history of SpecStore: the last call of the store
  last,       \* history: the last store call and, for addItem, the one before
  isCheckingOut,  \* CartSidebar: useState(false)
  checkoutError,  \* CartSidebar: useState<string | null>(null)
  pc,             \* handleCheckout: "idle", "awaiting" (a fetch), "redirected"
  coItems,        \* handleCheckout: the items the running call iterates
  coIdx,          \* handleCheckout: index in coItems of the line being sent
  checkoutUrl,    \* handleCheckout: let checkoutUrl (0 is null, else the cart)
  request,        \* the POST /api/cart in flight: <<>> or <<body>>
  response,       \* its response, not yet read: <<>> or <<response>>
  cookie,         \* the shopify_cart_id cookie (0: not set)
  nCarts,         \* remote carts the provider has created, ids 1..nCarts
  srvLog,         \* history: what the last POST /api/cart did
  thisCartId,     \* ShopifyCartService: private cartId (0 is null)
  call,           \* history: the last call of a method of the service
  remote,         \* history of SpecRetry: the quantities the provider's carts hold
  startItems,     \* history: the line list when the last checkout started
  startTotals,    \* history: the totals when the last checkout started
  touched,        \* history: the cart was changed while that checkout ran
  outcome,        \* history: how that checkout ended
  sent,           \* history: the requests that checkout has issued
  flight          \* history: requests issued, their responses not yet read

storeVars == <<items, isOpen, itemCount, subtotal, tax, shipping, total>>
coVars == <<isCheckingOut, checkoutError, pc, coItems, coIdx, checkoutUrl>>
netVars == <<request, response>>
srvVars == <<cookie, nCarts, srvLog, thisCartId, call, remote>>
histVars == <<startItems, startTotals, touched, outcome, sent, flight>>
appVars == <<coVars, netVars, srvVars, histVars>>
\* what a call of the store leaves alone besides the clock
otherVars == <<last, appVars>>
\* the history variables of the store
storeHist == <<loaded, op, last>>
vars == <<storeVars, storage, now, loaded, op, last, appVars>>

(***************************************************************************)
(* Pure helpers                                                            *)
(***************************************************************************)
\* JavaScript truthiness of an optional string
Truthy(v) == v # Undefined /\ v # EmptyStr

\* variantId || product.variants?.[0]?.id
EffectiveVariantId(product, variantId) ==
  IF Truthy(variantId) THEN variantId
  ELSE IF Len(product.variants) > 0 THEN product.variants[1]
  ELSE Undefined

\* Math.round(x / 1000) for x in thousandths: rounds half up
RoundMills(x) == (x + 500) \div 1000

\* an item count that would count the lines instead of their quantities
SumQuantityCountingLines(its) == Len(its)

RECURSIVE SumQuantity(_)
SumQuantity(its) ==
  IF its = <<>> THEN 0 ELSE its[1].quantity + SumQuantity(Tail(its))

RECURSIVE SumPrice(_)
SumPrice(its) ==
  IF its = <<>> THEN 0
  ELSE its[1].product.price * its[1].quantity + SumPrice(Tail(its))

\* a threshold that would be exclusive
ShippingForAbove(sub) == IF sub > FreeShippingThreshold THEN 0 ELSE ShippingFee

\* shipping before rounding, in cents
ShippingFor(sub) == IF sub >= FreeShippingThreshold THEN 0 ELSE ShippingFee

\* Tax and total are products and sums of binary64 numbers.  tax * 100 is on
\* a half-cent tie when the subtotal is an odd number of whole dollars, and
\* binary64 then yields the tie itself or a value above it for every
\* subtotal up to 1000.00, so Math.round(tax * 100) is RoundMills of the
\* exact value.  (subtotal + tax + shipping) * 100 is on a tie for the same
\* subtotals, and for the subtotals of TotalTieBelowHalf binary64 yields a
\* value just below the tie (21 + 1.785 + 10 gives 32.785, and 32.785 * 100
\* gives 3278.4999999999995), which Math.round rounds down.
TotalTieBelowHalf ==
  {2100, 12700, 14500, 24300, 25100, 26500, 29300, 30100, 47700, 48300, 50500,
   51100, 52700, 53300, 55500, 56100, 57700, 94700, 97900, 98500, 99100, 99700}

\* Math.round(total * 100) for total = subtotal + tax + shipping in binary64;
\* totalM is the exact sum in thousandths of a cent
RoundTotal(sub, totalM) ==
  IF totalM % 1000 = 500 /\ sub \in TotalTieBelowHalf
  THEN totalM \div 1000
  ELSE RoundMills(totalM)

calculateTotals(its) ==
  LET sub  == SumPrice(its)
      taxM == sub * TaxRateMills
      ship == ShippingFor(sub)
  IN [itemCount |-> SumQuantity(its),
      subtotal  |-> RoundMills(sub * 1000),
      tax       |-> RoundMills(taxM),
      shipping  |-> RoundMills(ship * 1000),
      total     |-> RoundTotal(sub, sub * 1000 + taxM + ship * 1000)]

ZeroTotals ==
  [itemCount |-> 0, subtotal |-> 0, tax |-> 0, shipping |-> 0, total |-> 0]

\* the totals the store holds
Totals ==
  [itemCount |-> itemCount, subtotal |-> subtotal, tax |-> tax,
   shipping |-> shipping, total |-> total]

(***************************************************************************)
(* Persistence (zustand persist middleware, options at the end of the      *)
(* store): partialize keeps only items; JSON.stringify drops a property    *)
(* whose value is undefined, and reading a missing property gives          *)
(* undefined again.                                                        *)
(***************************************************************************)
SerializeLine(item) ==
  IF item.variantId = Undefined
  THEN [id |-> item.id, product |-> item.product, quantity |-> item.quantity]
  ELSE [id |-> item.id, product |-> item.product, quantity |-> item.quantity,
        variantId |-> item.variantId]

DeserializeLine(rec) ==
  [id |-> rec.id, product |-> rec.product, quantity |-> rec.quantity,
   variantId |-> IF "variantId" \in DOMAIN rec THEN rec.variantId ELSE Undefined]

\* a partialize that would keep the visibility flag as well
PartializeWithOpen(its) ==
  [items |-> [i \in DOMAIN its |-> SerializeLine(its[i])], isOpen |-> isOpen]

\* partialize: (state) => ({ items: state.items }), then JSON.stringify
Partialize(its) == [items |-> [i \in DOMAIN its |-> SerializeLine(its[i])]]

\* JSON.parse of the stored record, merged over the initial state
StoredItems(rec) == [i \in DOMAIN rec.items |-> DeserializeLine(rec.items[i])]

(***************************************************************************)
(* Store operations                                                        *)
(***************************************************************************)
SetTotals(t) ==
  /\ itemCount' = t.itemCount
  /\ subtotal' = t.subtotal
  /\ tax' = t.tax
  /\ shipping' = t.shipping
  /\ total' = t.total

\* the findIndex predicate of a store that keys lines on the product alone
SameLineByProduct(item, product, effectiveVariantId) ==
  item.product.id = product.id

\* findIndex predicate of addItem
SameLine(item, product, effectiveVariantId) ==
  item.product.id = product.id /\ item.variantId = effectiveVariantId

\* a lookup that would never find the line
FindIndexNever(its, product, effectiveVariantId) == 0

\* state.items.findIndex(...): first matching index, 0 when there is none
FindIndex(its, product, effectiveVariantId) ==
  LET hits == {i \in DOMAIN its : SameLine(its[i], product, effectiveVariantId)}
  IN IF hits = {} THEN 0 ELSE CHOOSE i \in hits : \A j \in hits : i <= j

\* a merge that would replace the quantity instead of adding to it
MergedLineReplacing(item, quantity) == [item EXCEPT !.quantity = quantity]

\* { ...item, quantity: item.quantity + quantity }
MergedLine(item, quantity) == [item EXCEPT !.quantity = item.quantity + quantity]

\* a merge that would refresh the snapshot with the product passed
AddItemItemsRefreshing(its, product, quantity, variantId, time) ==
  LET effectiveVariantId == EffectiveVariantId(product, variantId)
      existingItemIndex == FindIndex(its, product, effectiveVariantId)
  IN IF existingItemIndex > 0
     THEN [i \in DOMAIN its |->
             IF i = existingItemIndex
             THEN [its[i] EXCEPT !.quantity = its[i].quantity + quantity,
                                 !.product = product]
             ELSE its[i]]
     ELSE Append(its, [id |-> time, product |-> product, quantity |-> quantity,
                       variantId |-> effectiveVariantId])

\* the items list addItem builds
AddItemItems(its, product, quantity, variantId, time) ==
  LET effectiveVariantId == EffectiveVariantId(product, variantId)
      existingItemIndex == FindIndex(its, product, effectiveVariantId)
  IN IF existingItemIndex > 0
     THEN [i \in DOMAIN its |->
             IF i = existingItemIndex THEN MergedLine(its[i], quantity) ELSE its[i]]
     ELSE Append(its, [id |-> time, product |-> product, quantity |-> quantity,
                       variantId |-> effectiveVariantId])

\* the items list updateQuantity builds
UpdateQuantityItems(its, itemId, quantity) ==
  IF quantity <= 0
  THEN SelectSeq(its, LAMBDA item : item.id # itemId)
  ELSE [i \in DOMAIN its |->
          IF its[i].id = itemId THEN [its[i] EXCEPT !.quantity = quantity] ELSE its[i]]

\* the items list removeItem builds
RemoveItemItems(its, itemId) == SelectSeq(its, LAMBDA item : item.id # itemId)

\* the model keeps the quantities of the lines within LineQtys
WithinBounds(its) == \A i \in DOMAIN its : its[i].quantity \in LineQtys

\* set((state) => ({ items: newItems, ...calculateTotals(newItems) })) and the
\* write of the persist middleware that follows every set
SetItems(newItems) ==
  /\ items' = newItems
  /\ SetTotals(calculateTotals(newItems))
  /\ storage' = <<Partialize(newItems)>>
  /\ UNCHANGED isOpen

addItem(product, quantity, variantId) ==
  LET newItems == AddItemItems(items, product, quantity, variantId, now)
  IN /\ WithinBounds(newItems)
     /\ SetItems(newItems)
     /\ UNCHANGED now

updateQuantity(itemId, quantity) ==
  /\ SetItems(UpdateQuantityItems(items, itemId, quantity))
  /\ UNCHANGED now

removeItem(itemId) ==
  /\ SetItems(RemoveItemItems(items, itemId))
  /\ UNCHANGED now

\* a clearCart that would recompute the totals of the emptied list
clearCartRecomputing == SetItems(<<>>) /\ UNCHANGED now

clearCart ==
  /\ items' = <<>>
  /\ SetTotals(ZeroTotals)
  /\ storage' = <<Partialize(<<>>)>>
  /\ UNCHANGED <<isOpen, now>>

\* a set of the visibility flag that would recompute the totals as well
SetOpenRecomputing(b) ==
  /\ isOpen' = b
  /\ SetTotals(calculateTotals(items))
  /\ storage' = <<Partialize(items)>>
  /\ UNCHANGED <<items, now>>

\* set of a visibility flag; the persist middleware writes storage again
SetOpen(b) ==
  /\ isOpen' = b
  /\ storage' = <<Partialize(items)>>
  /\ UNCHANGED <<items, itemCount, subtotal, tax, shipping, total, now>>

toggleCart == SetOpen(~isOpen)
openCart == SetOpen(TRUE)
closeCart == SetOpen(FALSE)

\* a page load: the store is created with its initial state, the stored
\* record is merged over it, and onRehydrateStorage recomputes the totals
\* only when the restored list is not empty
Rehydrate ==
  /\ isOpen' = IF storage # <<>> /\ "isOpen" \in DOMAIN storage[1]
               THEN storage[1].isOpen ELSE FALSE
  /\ IF storage = <<>>
     THEN items' = <<>> /\ SetTotals(ZeroTotals)
     ELSE LET restored == StoredItems(storage[1])
          IN /\ items' = restored
             /\ IF Len(restored) > 0
                THEN SetTotals(calculateTotals(restored))
                ELSE SetTotals(ZeroTotals)
  /\ UNCHANGED <<storage, now>>

\* time passes between two calls
Tick ==
  /\ now < MaxTime
  /\ now' = now + 1
  /\ UNCHANGED <<items, isOpen, itemCount, subtotal, tax, shipping, total, storage>>

(***************************************************************************)
(* History of the addItem calls (not program state).  last.cur describes   *)
(* the last store call when it was an addItem: the product id and the      *)
(* resolved variant id it was called for, and the quantity the cart is     *)
(* expected to hold for them after the call, which is the quantity argument *)
(* on top of what the cart held before the call; when the call before was  *)
(* an addItem for the same product and variant, on top of what was expected *)
(* after that call.  last.prev describes the call right before the last    *)
(* one when both were addItem calls for the same product.                  *)
(***************************************************************************)
NoAdd == [isAdd |-> FALSE, pid |-> "", vid |-> "", expect |-> 0]

NoPrev == [isAdd |-> FALSE, vid |-> "", expect |-> 0]

\* lines of its held for product id pid and variant vid
LinesFor(its, pid, vid) ==
  {i \in DOMAIN its : its[i].product.id = pid /\ its[i].variantId = vid}

\* quantity held for (pid, vid): 0 when there is no such line
RECURSIVE QuantityFor(_, _, _)
QuantityFor(its, pid, vid) ==
  IF its = <<>> THEN 0
  ELSE (IF its[1].product.id = pid /\ its[1].variantId = vid
        THEN its[1].quantity ELSE 0) + QuantityFor(Tail(its), pid, vid)

AddInfo(product, quantity, variantId) ==
  LET vid == EffectiveVariantId(product, variantId)
      again == last.cur.isAdd /\ last.cur.pid = product.id /\ last.cur.vid = vid
      held == IF again THEN last.cur.expect
              ELSE QuantityFor(items, product.id, vid)
  IN [isAdd |-> TRUE, pid |-> product.id, vid |-> vid, expect |-> held + quantity]

Record(cur) ==
  last' = [cur |-> cur,
           prev |-> IF cur.isAdd /\ last.cur.isAdd /\ last.cur.pid = cur.pid
                    THEN [isAdd |-> TRUE, vid |-> last.cur.vid,
                          expect |-> last.cur.expect]
                    ELSE NoPrev]

\* history of SpecStore: the name of the last call of the store and the number
\* of lines the cart held when it was made
NoCall == [name |-> "none", lines |-> 0]

Called(name) == op' = [name |-> name, lines |-> Len(items)]

\* call before the first call of a method of the service
NoServiceCall ==
  [method |-> "none", before |-> 0, fetch |-> "none", create |-> "none",
   add |-> "none", result |-> 0, fetches |-> 0, creates |-> 0, adds |-> 0,
   target |-> 0]

\* srvLog before the first POST
NoPost ==
  [cartIdIn |-> 0, fetched |-> FALSE, created |-> FALSE, target |-> 0,
   added |-> FALSE, route |-> "none", status |-> 0, requests |-> 0]

\* the store and the page before anything was done, but for the storage
\* the variant ids of the catalog
VariantIds == UNION {{product.variants[i] : i \in DOMAIN product.variants} :
                       product \in Catalog}

\* largest quantity of a variant a remote cart holds
MaxRemoteQty == 2

\* the provider's carts before any line was added
NoLines == [c \in 1..MaxCarts |-> [v \in VariantIds |-> 0]]

StartState ==
  /\ items = <<>>
  /\ isOpen = FALSE
  /\ itemCount = 0
  /\ subtotal = 0
  /\ tax = 0
  /\ shipping = 0
  /\ total = 0
  /\ now = 0
  /\ loaded = FALSE
  /\ op = NoCall
  /\ last = [cur |-> NoAdd, prev |-> NoPrev]
  /\ isCheckingOut = FALSE
  /\ checkoutError = Null
  /\ pc = "idle"
  /\ coItems = <<>>
  /\ coIdx = 0
  /\ checkoutUrl = 0
  /\ request = <<>>
  /\ response = <<>>
  /\ cookie = 0
  /\ nCarts = 0
  /\ srvLog = NoPost
  /\ thisCartId = 0
  /\ call = NoServiceCall
  /\ remote = NoLines
  /\ startItems = <<>>
  /\ startTotals = ZeroTotals
  /\ touched = FALSE
  /\ outcome = "none"
  /\ sent = <<>>
  /\ flight = 0

\* a first visit: nothing is stored
Init == StartState /\ storage = <<>>

(***************************************************************************)
(* SpecStore: the store driven through its whole interface, with page      *)
(* loads and the passing of time                                           *)
(***************************************************************************)
StoreAddItem(product, quantity, variantId) ==
  addItem(product, quantity, variantId) /\ loaded' = FALSE /\ Called("addItem")
  /\ UNCHANGED otherVars

StoreUpdateQuantity(itemId, quantity) ==
  updateQuantity(itemId, quantity) /\ loaded' = FALSE /\ Called("updateQuantity")
  /\ UNCHANGED otherVars

StoreRemoveItem(itemId) ==
  removeItem(itemId) /\ loaded' = FALSE /\ Called("removeItem")
  /\ UNCHANGED otherVars

StoreClearCart ==
  clearCart /\ loaded' = FALSE /\ Called("clearCart") /\ UNCHANGED otherVars

StoreToggleCart ==
  toggleCart /\ loaded' = FALSE /\ Called("toggleCart") /\ UNCHANGED otherVars

StoreOpenCart ==
  openCart /\ loaded' = FALSE /\ Called("openCart") /\ UNCHANGED otherVars

StoreCloseCart ==
  closeCart /\ loaded' = FALSE /\ Called("closeCart") /\ UNCHANGED otherVars

StoreRehydrate ==
  Rehydrate /\ loaded' = TRUE /\ Called("rehydrate") /\ UNCHANGED otherVars

StoreTick == Tick /\ UNCHANGED <<loaded, op, otherVars>>

NextStore ==
  \/ \E product \in Catalog, quantity \in QtyArgs :
       \E variantId \in VariantArgs(product) :
         StoreAddItem(product, quantity, variantId)
  \/ \E itemId \in IdArgs, quantity \in LineQtys : StoreUpdateQuantity(itemId, quantity)
  \/ \E itemId \in IdArgs : StoreRemoveItem(itemId)
  \/ StoreClearCart
  \/ StoreToggleCart
  \/ StoreOpenCart
  \/ StoreCloseCart
  \/ StoreRehydrate
  \/ StoreTick

SpecStore == Init /\ [][NextStore]_vars

(***************************************************************************)
(* SpecCalls: sequences of calls of the four mutations of the store, with  *)
(* the history of the addItem calls                                        *)
(***************************************************************************)
CallAddItem(product, quantity, variantId) ==
  /\ addItem(product, quantity, variantId)
  /\ Record(AddInfo(product, quantity, variantId))
  /\ UNCHANGED <<loaded, op, appVars>>

CallUpdateQuantity(itemId, quantity) ==
  /\ updateQuantity(itemId, quantity)
  /\ Record(NoAdd)
  /\ UNCHANGED <<loaded, op, appVars>>

CallRemoveItem(itemId) ==
  removeItem(itemId) /\ Record(NoAdd) /\ UNCHANGED <<loaded, op, appVars>>

CallClearCart == clearCart /\ Record(NoAdd) /\ UNCHANGED <<loaded, op, appVars>>

CallTick == Tick /\ UNCHANGED <<loaded, op, otherVars>>

NextCalls ==
  \/ \E product \in Catalog, quantity \in QtyArgs :
       \E variantId \in VariantArgs(product) :
         CallAddItem(product, quantity, variantId)
  \/ \E itemId \in IdArgs, quantity \in LineQtys : CallUpdateQuantity(itemId, quantity)
  \/ \E itemId \in IdArgs : CallRemoveItem(itemId)
  \/ CallClearCart
  \/ CallTick

SpecCalls == Init /\ [][NextCalls]_vars

(***************************************************************************)
(* The remote side: POST /api/cart and ShopifyCartService.addItem          *)
(***************************************************************************)
\* a getOrCreateCart that would never resume the known cart
NeedsCreateAlways(cartId, fetchOk) == TRUE

\* getOrCreateCart: createCart is called unless getCart returned a cart
NeedsCreate(cartId, fetchOk) == cartId = 0 \/ ~fetchOk

\* What a request of the Storefront API client can come to.  The cart query:
\* the cart ("ok"), data.cart null ("missing"), GraphQL errors ("errors"), a
\* rejected request ("throws").  The cartCreate mutation: a cart ("ok"), no
\* errors and no cart ("empty"), a non-empty userErrors list ("userErrors"),
\* GraphQL errors ("errors"), a rejected request ("throws").  The
\* cartLinesAdd, cartLinesUpdate and cartLinesRemove mutations: the cart
\* ("ok"), or one of the same failures.
FetchOutcomes == {"ok", "missing", "errors", "throws"}
CreateOutcomes == {"ok", "empty", "userErrors", "errors", "throws"}
AddOutcomes == {"ok", "empty", "userErrors", "errors", "throws"}

\* a createCart that would forget the known cart when the call fails
createCartForgetting(id, answer, fresh) ==
  IF answer = "ok" THEN [cart |-> fresh, cartId |-> fresh]
  ELSE [cart |-> 0, cartId |-> 0]

\* createCart on a service whose cartId is id; fresh is the id of the cart
\* the provider creates.  The result is the cart returned (0: null or
\* undefined) and the cartId of the service after the call.
createCart(id, answer, fresh) ==
  IF answer \in {"throws", "errors", "userErrors"}
  THEN [cart |-> 0, cartId |-> id]
  ELSE IF answer = "ok"
       THEN [cart |-> fresh, cartId |-> fresh]
       ELSE [cart |-> 0, cartId |-> id]

\* a getCart that would answer with the known cart whatever the request gave
getCartUnchecked(id, answer) == id

\* getCart on a service whose cartId is id: the cart fetched, which is the
\* cart of that id, or 0 (null)
getCart(id, answer) ==
  IF id = 0 THEN 0
  ELSE IF answer = "ok" THEN id ELSE 0

\* getOrCreateCart on a service whose cartId is id: the cart returned, the
\* cartId of the service after the call, and the numbers of getCart and
\* createCart calls made
getOrCreateCart(id, fetchOutcome, createOutcome, fresh) ==
  LET cart == IF id # 0 THEN getCart(id, fetchOutcome) ELSE 0
  IN IF NeedsCreate(id, cart # 0)
     THEN LET made == createCart(id, createOutcome, fresh)
          IN [cart |-> made.cart, cartId |-> made.cartId,
              fetches |-> IF id # 0 THEN 1 ELSE 0, creates |-> 1]
     ELSE [cart |-> cart, cartId |-> id, fetches |-> 1, creates |-> 0]

\* an addItem that would issue cartLinesAdd whatever getOrCreateCart gave
serviceAddItemUnguarded(id, fetchOutcome, createOutcome, addOutcome, fresh) ==
  LET got == getOrCreateCart(id, fetchOutcome, createOutcome, fresh)
  IN [cart |-> IF addOutcome = "ok" THEN got.cartId ELSE 0,
      cartId |-> got.cartId, fetches |-> got.fetches, creates |-> got.creates,
      adds |-> 1, target |-> got.cartId]

\* addItem(variantId, quantity) of the service: getOrCreateCart, and when it
\* gave a cart the cartLinesAdd mutation on the cart of this.cartId; adds is
\* the number of cartLinesAdd requests issued and target the cart they name
serviceAddItem(id, fetchOutcome, createOutcome, addOutcome, fresh) ==
  LET got == getOrCreateCart(id, fetchOutcome, createOutcome, fresh)
  IN IF got.cart = 0
     THEN [cart |-> 0, cartId |-> got.cartId, fetches |-> got.fetches,
           creates |-> got.creates, adds |-> 0, target |-> 0]
     ELSE [cart |-> IF addOutcome = "ok" THEN got.cartId ELSE 0,
           cartId |-> got.cartId, fetches |-> got.fetches,
           creates |-> got.creates, adds |-> 1, target |-> got.cartId]

\* an updateQuantity that would send its request without a known cart
serviceUpdateQuantityUnguarded(id, answer) ==
  [cart |-> IF answer = "ok" THEN id ELSE 0, cartId |-> id, requests |-> 1]

\* updateQuantity(lineId, quantity) of the service whose cartId is id: the
\* cart returned (0: null or undefined) and the number of requests issued
serviceUpdateQuantity(id, answer) ==
  IF id = 0 THEN [cart |-> 0, cartId |-> id, requests |-> 0]
  ELSE [cart |-> IF answer = "ok" THEN id ELSE 0, cartId |-> id, requests |-> 1]

\* the value of a call that ends with an exception instead of a value
Thrown == 0 - 1

serviceRemoveItemRethrowing(id, answer) ==
  IF id = 0 THEN [cart |-> 0, cartId |-> id, requests |-> 0]
  ELSE [cart |-> IF answer = "ok" THEN id ELSE IF answer = "throws" THEN Thrown ELSE 0,
        cartId |-> id, requests |-> 1]

\* removeItem(lineId) of the service whose cartId is id
serviceRemoveItem(id, answer) ==
  IF id = 0 THEN [cart |-> 0, cartId |-> id, requests |-> 0]
  ELSE [cart |-> IF answer = "ok" THEN id ELSE 0, cartId |-> id, requests |-> 1]

\* the provider creates at most MaxCarts carts: beyond, the request fails
ProviderCreate(answer) == IF nCarts < MaxCarts THEN answer ELSE "throws"

\* One POST /api/cart, from the request to the response.  The route makes a
\* service, gives it the cart id of the cookie and calls its addItem.  The
\* outcome of each request to the provider is chosen freely.  The cookie is
\* set from the response of a successful request only.
PostRoute ==
  /\ request # <<>>
  /\ \E fetchOutcome \in FetchOutcomes, createOutcome \in CreateOutcomes,
        addOutcome \in AddOutcomes :
       LET existingCartId == cookie
           fetchOk == fetchOutcome = "ok"
           got     == serviceAddItem(existingCartId, fetchOutcome,
                                     ProviderCreate(createOutcome), addOutcome,
                                     nCarts + 1)
           gotCart == got.target # 0
           created == got.creates = 1 /\ gotCart
           cartId  == got.cartId
           success == got.cart # 0
       IN /\ nCarts' = IF created THEN nCarts + 1 ELSE nCarts
          /\ cookie' = IF success THEN cartId ELSE cookie
          /\ response' = IF success
                         THEN <<[status |-> 200, checkoutUrl |-> cartId,
                                 error |-> Null]>>
                         ELSE <<[status |-> 500, checkoutUrl |-> 0,
                                 error |-> "Failed to add item to cart"]>>
          /\ srvLog' = [cartIdIn |-> existingCartId,
                        fetched |-> existingCartId # 0 /\ fetchOk,
                        created |-> created,
                        target |-> IF gotCart THEN cartId ELSE 0,
                        added |-> success,
                        route |-> "POST",
                        status |-> IF success THEN 200 ELSE 500,
                        requests |-> got.fetches + got.creates + got.adds]
  /\ request' = <<>>
  /\ UNCHANGED <<storeVars, storage, now, loaded, op, last, coVars, histVars,
                 thisCartId, call>>

\* the route serves the request; what the provider's carts hold is not recorded
ServerPost == PostRoute /\ UNCHANGED remote

\* cartLinesAdd of the provider: the quantity is added to what the cart
\* holds for the merchandise
LinesAdded(carts, cartId, body) ==
  [carts EXCEPT ![cartId][body.variantId] = @ + body.quantity]

\* the route serves the request, and the provider's cart holds the line when
\* the add-line request succeeded; a cart holds at most MaxRemoteQty of a variant
ProviderPost ==
  /\ PostRoute
  /\ remote' = IF srvLog'.added THEN LinesAdded(remote, srvLog'.target, request[1])
               ELSE remote
  /\ \A c \in DOMAIN remote' : \A v \in DOMAIN remote'[c] : remote'[c][v] <= MaxRemoteQty

\* One PATCH or DELETE /api/cart of the session, from the request to the
\* response: 404 without a cart-id cookie; else the route makes a service,
\* gives it the id of the cookie and calls mutate (updateQuantity or
\* removeItem), answering 500 when it returns no cart.  The cookie is not
\* set by these routes.
ServerMutate(route, mutated) ==
  /\ request = <<>>
  /\ response = <<>>
  /\ srvLog' = IF cookie = 0
               THEN [NoPost EXCEPT !.route = route, !.status = 404]
               ELSE [NoPost EXCEPT !.route = route, !.cartIdIn = cookie,
                                   !.target = cookie,
                                   !.status = IF mutated.cart # 0 THEN 200 ELSE 500,
                                   !.requests = mutated.requests]
  /\ UNCHANGED <<storeVars, storage, now, loaded, op, last, coVars, netVars, cookie,
                 nCarts, thisCartId, call, remote, histVars>>

ServerPatch(answer) == ServerMutate("PATCH", serviceUpdateQuantity(cookie, answer))

ServerDelete(answer) == ServerMutate("DELETE", serviceRemoveItem(cookie, answer))

\* the request never reaches the server: fetch rejects
NetworkError ==
  /\ request # <<>>
  /\ request' = <<>>
  /\ response' = <<[status |-> 0, checkoutUrl |-> 0, error |-> "Failed to fetch"]>>
  /\ UNCHANGED <<storeVars, storage, now, loaded, op, last, coVars, srvVars, histVars>>

(***************************************************************************)
(* CartSidebar.handleCheckout.  The code between two awaits runs without   *)
(* any other handler in between, so the call is two actions: the click, up *)
(* to the first fetch, and the arrival of a response, up to the next fetch *)
(* or to the end of the call.                                              *)
(***************************************************************************)
\* item.variantId || item.product.variants?.[0]?.id
ResolveVariant(item) == EffectiveVariantId(item.product, item.variantId)

\* a loop that would send every line, a line without a variant id included
NextToSendUnfiltered(its, from) == from

\* first index >= from of a line with a variant id: the lines before it are
\* skipped with a warning; Len(its) + 1 when there is none
NextToSend(its, from) ==
  LET rest == {i \in from..Len(its) : Truthy(ResolveVariant(its[i]))}
  IN IF rest = {} THEN Len(its) + 1 ELSE CHOOSE i \in rest : \A j \in rest : i <= j

\* a catch block that would also empty the cart
CheckoutFailClearing(message) ==
  /\ checkoutError' = message
  /\ isCheckingOut' = FALSE
  /\ pc' = "idle"
  /\ coItems' = <<>>
  /\ coIdx' = 0
  /\ checkoutUrl' = 0
  /\ request' = <<>>
  /\ outcome' = "failed"
  /\ items' = <<>>
  /\ SetTotals(ZeroTotals)
  /\ storage' = <<Partialize(<<>>)>>
  /\ UNCHANGED isOpen

\* a catch block without the finally: the button would stay disabled
CheckoutFailBusy(message) ==
  /\ checkoutError' = message
  /\ isCheckingOut' = TRUE
  /\ pc' = "idle"
  /\ coItems' = <<>>
  /\ coIdx' = 0
  /\ checkoutUrl' = 0
  /\ request' = <<>>
  /\ outcome' = "failed"
  /\ UNCHANGED <<storeVars, storage>>

\* catch + finally: the error is shown, the button is enabled again
CheckoutFail(message) ==
  /\ checkoutError' = message
  /\ isCheckingOut' = FALSE
  /\ pc' = "idle"
  /\ coItems' = <<>>
  /\ coIdx' = 0
  /\ checkoutUrl' = 0
  /\ request' = <<>>
  /\ outcome' = "failed"
  /\ UNCHANGED <<storeVars, storage>>

\* clearCart(); closeCart(); window.location.href = checkoutUrl; finally
CheckoutRedirect(url, error) ==
  /\ items' = <<>>
  /\ SetTotals(ZeroTotals)
  /\ isOpen' = FALSE
  /\ storage' = <<Partialize(<<>>)>>
  /\ isCheckingOut' = FALSE
  /\ pc' = "redirected"
  /\ coItems' = <<>>
  /\ coIdx' = 0
  /\ checkoutUrl' = url
  /\ request' = <<>>
  /\ outcome' = "redirected"
  /\ checkoutError' = error

\* the for loop from index from on, with checkoutUrl = url and the
\* checkoutError state being error
CheckoutContinue(its, from, url, error) ==
  LET n == NextToSend(its, from)
  IN IF n <= Len(its)
     THEN /\ request' = <<[variantId |-> ResolveVariant(its[n]),
                           quantity |-> its[n].quantity]>>
          /\ coItems' = its
          /\ coIdx' = n
          /\ checkoutUrl' = url
          /\ pc' = "awaiting"
          /\ isCheckingOut' = TRUE
          /\ checkoutError' = error
          /\ outcome' = "none"
          /\ UNCHANGED <<storeVars, storage>>
     ELSE IF url # 0
          THEN CheckoutRedirect(url, error)
          ELSE CheckoutFail("No checkout URL received")

\* history of the requests: a step of handleCheckout that leaves it awaiting
\* a fetch has issued the request of the line at coIdx; before is what the
\* checkout had sent before the step, inFlight the requests still awaited
Track(before, inFlight) ==
  IF pc' = "awaiting"
  THEN /\ sent' = Append(before, [line |-> coIdx', body |-> request'[1]])
       /\ flight' = inFlight + 1
  ELSE /\ sent' = before
       /\ flight' = inFlight

\* a button that would stay enabled while a checkout runs
CheckoutEnabledWhileRunning == pc # "redirected" /\ Len(items) > 0

\* the "Proceed to Checkout" button is rendered when the cart has lines and
\* is disabled while isCheckingOut
CheckoutEnabled == pc = "idle" /\ ~isCheckingOut /\ Len(items) > 0

\* click on "Proceed to Checkout"
CheckoutClick ==
  /\ CheckoutEnabled
  /\ startItems' = items
  /\ startTotals' = Totals
  /\ touched' = FALSE
  /\ CheckoutContinue(items, 1, 0, Null)
  /\ Track(<<>>, flight)
  /\ UNCHANGED <<now, storeHist, response, srvVars>>

\* a handler that would not look at response.ok
ResponseOkAlways(r) == TRUE

\* response.ok; a rejected fetch (status 0) has no response and throws
ResponseOk(r) == r.status = 200

\* the awaited fetch settles
CheckoutResponse ==
  /\ pc = "awaiting"
  /\ response # <<>>
  /\ response' = <<>>
  /\ IF ResponseOk(response[1])
     THEN CheckoutContinue(coItems, coIdx + 1, response[1].checkoutUrl,
                           checkoutError)
     ELSE CheckoutFail(response[1].error)
  /\ Track(sent, flight - 1)
  /\ srvLog' = NoPost
  /\ UNCHANGED <<now, storeHist, cookie, nCarts, thisCartId, call, remote,
                 startItems, startTotals, touched>>

(***************************************************************************)
(* Spec: the storefront page.  The shopper adds products, uses the         *)
(* controls of the cart drawer (which stay enabled during a checkout),     *)
(* checks out and reloads the page; the requests are answered by the       *)
(* route.  After the redirect to the hosted checkout the page is gone      *)
(* until it is loaded again.                                               *)
(***************************************************************************)
\* history of the checkout: a change of the cart while a checkout runs is
\* remembered; a change after it ended forgets that checkout
UiHistory ==
  IF pc = "awaiting"
  THEN touched' = TRUE /\ UNCHANGED <<startItems, startTotals, outcome, sent, flight>>
  ELSE /\ touched' = FALSE
       /\ startItems' = <<>>
       /\ startTotals' = ZeroTotals
       /\ outcome' = "none"
       /\ sent' = <<>>
       /\ UNCHANGED flight

\* product.variants?.[0]?.id
FirstVariant(product) ==
  IF Len(product.variants) > 0 THEN product.variants[1] ELSE Undefined

\* handleAddToCart of the storefront page:
\* addItem(product, 1, product.variants?.[0]?.id); openCart()
UiAddToCart(product) ==
  LET newItems == AddItemItems(items, product, 1, FirstVariant(product), now)
  IN /\ pc # "redirected"
     /\ WithinBounds(newItems)
     /\ items' = newItems
     /\ SetTotals(calculateTotals(newItems))
     /\ isOpen' = TRUE
     /\ storage' = <<Partialize(newItems)>>
     /\ UiHistory
     /\ UNCHANGED <<now, storeHist, coVars, netVars, srvVars>>

\* handleAddToCart of the product grid: addItem(product)
UiAddPlain(product) ==
  /\ pc # "redirected"
  /\ addItem(product, DefaultQuantity, Undefined)
  /\ UiHistory
  /\ UNCHANGED <<storeHist, coVars, netVars, srvVars>>

\* the + button of a line: updateQuantity(item.id, item.quantity + 1)
UiIncrement(i) ==
  /\ pc # "redirected"
  /\ items[i].quantity + 1 \in LineQtys
  /\ updateQuantity(items[i].id, items[i].quantity + 1)
  /\ UiHistory
  /\ UNCHANGED <<storeHist, coVars, netVars, srvVars>>

\* the - button of a line: updateQuantity(item.id, item.quantity - 1)
UiDecrement(i) ==
  /\ pc # "redirected"
  /\ updateQuantity(items[i].id, items[i].quantity - 1)
  /\ UiHistory
  /\ UNCHANGED <<storeHist, coVars, netVars, srvVars>>

\* the Remove button of a line: removeItem(item.id)
UiRemove(i) ==
  /\ pc # "redirected"
  /\ removeItem(items[i].id)
  /\ UiHistory
  /\ UNCHANGED <<storeHist, coVars, netVars, srvVars>>

\* the backdrop and the close button of the drawer
UiCloseCart ==
  /\ pc # "redirected"
  /\ closeCart
  /\ UNCHANGED <<storeHist, appVars>>

\* the cart button of the page header
UiOpenCart ==
  /\ pc # "redirected"
  /\ openCart
  /\ UNCHANGED <<storeHist, appVars>>

\* the page is loaded again: the store is rehydrated and the component
\* starts with its initial state; the cookie stays
PageLoad ==
  /\ pc \in {"idle", "redirected"}
  /\ Rehydrate
  /\ isCheckingOut' = FALSE
  /\ checkoutError' = Null
  /\ pc' = "idle"
  /\ coItems' = <<>>
  /\ coIdx' = 0
  /\ checkoutUrl' = 0
  /\ touched' = FALSE
  /\ startItems' = <<>>
  /\ startTotals' = ZeroTotals
  /\ outcome' = "none"
  /\ sent' = <<>>
  /\ UNCHANGED <<flight, storeHist, netVars, srvVars>>

AppTick == Tick /\ UNCHANGED <<loaded, op, otherVars>>

Next ==
  \/ \E product \in Catalog : UiAddToCart(product)
  \/ \E product \in Catalog : UiAddPlain(product)
  \/ \E i \in DOMAIN items : UiIncrement(i)
  \/ \E i \in DOMAIN items : UiDecrement(i)
  \/ \E i \in DOMAIN items : UiRemove(i)
  \/ UiOpenCart
  \/ UiCloseCart
  \/ CheckoutClick
  \/ CheckoutResponse
  \/ ServerPost
  \/ NetworkError
  \/ PageLoad
  \/ AppTick

Spec == Init /\ [][Next]_vars

(***************************************************************************)
(* SpecCheckout: the storefront page against a route of which only the     *)
(* answers are modelled.  The page never reads the state of the route (the *)
(* cookie is httpOnly), only its responses: a request is answered by any   *)
(* response POST /api/cart can give.                                       *)
(***************************************************************************)
\* the responses of POST /api/cart to a request that names a variant: the
\* 500 of a failed cartService.addItem, or the 200 with the checkout URL of
\* a remote cart
RouteResponses ==
  {[status |-> 500, checkoutUrl |-> 0, error |-> "Failed to add item to cart"]}
    \cup {[status |-> 200, checkoutUrl |-> c, error |-> Null] : c \in 1..MaxCarts}

RouteResponds ==
  /\ request # <<>>
  /\ request' = <<>>
  /\ \E r \in RouteResponses : response' = <<r>>
  /\ UNCHANGED <<storeVars, storage, now, loaded, op, last, coVars, srvVars, histVars>>

NextCheckout ==
  \/ \E product \in Catalog : UiAddToCart(product)
  \/ \E product \in Catalog : UiAddPlain(product)
  \/ \E i \in DOMAIN items : UiIncrement(i)
  \/ \E i \in DOMAIN items : UiDecrement(i)
  \/ \E i \in DOMAIN items : UiRemove(i)
  \/ UiOpenCart
  \/ UiCloseCart
  \/ CheckoutClick
  \/ CheckoutResponse
  \/ RouteResponds
  \/ NetworkError
  \/ PageLoad
  \/ AppTick

SpecCheckout == Init /\ [][NextCheckout]_vars

(***************************************************************************)
(* SpecRoute: POST /api/cart and ShopifyCartService.addItem serving the    *)
(* add-line requests of one browser session, one at a time, whatever       *)
(* lines the page sends                                                    *)
(***************************************************************************)
\* fetch('/api/cart', { method: 'POST', body: { variantId, quantity } })
SessionPost(variantId, quantity) ==
  /\ request = <<>>
  /\ response = <<>>
  /\ request' = <<[variantId |-> variantId, quantity |-> quantity]>>
  /\ UNCHANGED <<storeVars, storage, now, loaded, op, last, coVars, response, srvVars,
                 histVars>>

\* await response.json(): the response is read
SessionRead ==
  /\ response # <<>>
  /\ response' = <<>>
  /\ UNCHANGED <<storeVars, storage, now, loaded, op, last, coVars, request, srvVars,
                 histVars>>

NextRoute ==
  \/ \E variantId \in VariantIds, quantity \in 1..MaxLineQty :
       SessionPost(variantId, quantity)
  \/ ServerPost
  \/ NetworkError
  \/ SessionRead

SpecRoute == Init /\ [][NextRoute]_vars

(***************************************************************************)
(* SpecTotals: calculateTotals applied to the line lists of a bounded set. *)
(* A visit starts with a cart an earlier visit has stored; the store is    *)
(* rehydrated from it (onRehydrateStorage recomputes the totals), and the  *)
(* quantities are changed and lines removed, each call recomputing the     *)
(* totals of the new list.                                                 *)
(***************************************************************************)
\* largest number of lines of a stored cart
MaxStoredLines == 2
\* prices around the free-shipping threshold, and a price of an odd number
\* of whole dollars (the tax of which is on a half-cent tie)
PricePoints == {2000, 2100, 5000, 9999, 10000}

PricedProduct(price) ==
  [id |-> ToString(price), price |-> price, variants |-> <<"v1", "v2">>]

\* the k-th line of a stored cart: lines of one product differ in the variant
StoredLine(k, price, quantity) ==
  [id |-> k - 1, product |-> PricedProduct(price), quantity |-> quantity,
   variantId |-> IF k % 2 = 1 THEN "v1" ELSE "v2"]

\* the carts a visit may find stored
StoredCarts ==
  UNION {{[k \in 1..n |-> StoredLine(k, price[k], quantity[k])] :
            price \in [1..n -> PricePoints], quantity \in [1..n -> 1..MaxLineQty]} :
         n \in 0..MaxStoredLines}

InitTotals ==
  /\ StartState
  /\ \E its \in StoredCarts : storage = <<Partialize(its)>>

NextTotals ==
  \/ StoreRehydrate
  \/ \E itemId \in IdArgs, quantity \in LineQtys : StoreUpdateQuantity(itemId, quantity)
  \/ \E itemId \in IdArgs : StoreRemoveItem(itemId)
  \/ StoreClearCart

SpecTotals == InitTotals /\ [][NextTotals]_vars

(***************************************************************************)
(* SpecSequence: handleCheckout run on the carts of a bounded set.  A      *)
(* visit starts with a cart an earlier visit has stored, of up to three    *)
(* lines with and without a variant id, in any order; the page is loaded   *)
(* and the shopper checks out, again after a failure.  The requests are    *)
(* served by the route.                                                    *)
(***************************************************************************)
\* the (product, variantId) pairs addItem makes lines for
LineKinds ==
  UNION {{[product |-> product, variantId |-> EffectiveVariantId(product, variantId)] :
            variantId \in VariantArgs(product)} : product \in Catalog}

\* the carts a visit may find stored: at most one line of each kind
CheckoutCarts ==
  UNION {{[k \in 1..n |-> [id |-> k - 1, product |-> kind[k].product,
                           quantity |-> quantity[k],
                           variantId |-> kind[k].variantId]] :
            kind \in {f \in [1..n -> LineKinds] :
                        \A i, j \in 1..n : i # j => f[i] # f[j]},
            quantity \in [1..n -> 1..MaxLineQty]} :
         n \in 1..Cardinality(LineKinds)}

InitSequence ==
  /\ StartState
  /\ \E its \in CheckoutCarts : storage = <<Partialize(its)>>

NextSequence ==
  \/ PageLoad
  \/ CheckoutClick
  \/ CheckoutResponse
  \/ ServerPost
  \/ NetworkError

SpecSequence == InitSequence /\ [][NextSequence]_vars

(***************************************************************************)
(* SpecService: one ShopifyCartService, its methods called in any order    *)
(* with any answer of the requests to the provider                        *)
(***************************************************************************)
\* the ids of the carts the provider has created
RemoteCarts == 1..nCarts

ServiceFrame ==
  UNCHANGED <<storeVars, storage, now, loaded, op, last, coVars, netVars, cookie,
              srvLog, remote, histVars>>

\* setCartId(cartId), as the route does with the id of the cookie
ServiceSetCartId(id) ==
  /\ thisCartId' = id
  /\ call' = [NoServiceCall EXCEPT !.method = "setCartId", !.before = thisCartId,
                                   !.result = id]
  /\ UNCHANGED nCarts
  /\ ServiceFrame

ServiceCreateCart(answer) ==
  LET made == createCart(thisCartId, ProviderCreate(answer), nCarts + 1)
  IN /\ thisCartId' = made.cartId
     /\ nCarts' = IF ProviderCreate(answer) = "ok" THEN nCarts + 1 ELSE nCarts
     /\ call' = [NoServiceCall EXCEPT !.method = "createCart",
                                      !.before = thisCartId,
                                      !.create = ProviderCreate(answer),
                                      !.result = made.cart, !.creates = 1]
     /\ ServiceFrame

ServiceGetCart(answer) ==
  /\ call' = [NoServiceCall EXCEPT !.method = "getCart", !.before = thisCartId,
                                   !.fetch = IF thisCartId # 0 THEN answer ELSE "none",
                                   !.result = getCart(thisCartId, answer),
                                   !.fetches = IF thisCartId # 0 THEN 1 ELSE 0]
  /\ UNCHANGED <<thisCartId, nCarts>>
  /\ ServiceFrame

ServiceGetOrCreateCart(fetchOutcome, createOutcome) ==
  LET got == getOrCreateCart(thisCartId, fetchOutcome,
                             ProviderCreate(createOutcome), nCarts + 1)
  IN /\ thisCartId' = got.cartId
     /\ nCarts' = IF got.creates = 1 /\ got.cart # 0 THEN nCarts + 1 ELSE nCarts
     /\ call' = [NoServiceCall EXCEPT
                   !.method = "getOrCreateCart", !.before = thisCartId,
                   !.fetch = IF got.fetches = 1 THEN fetchOutcome ELSE "none",
                   !.create = IF got.creates = 1 THEN ProviderCreate(createOutcome)
                              ELSE "none",
                   !.result = got.cart, !.fetches = got.fetches,
                   !.creates = got.creates]
     /\ ServiceFrame

ServiceAddItem(fetchOutcome, createOutcome, addOutcome) ==
  LET got == serviceAddItem(thisCartId, fetchOutcome,
                            ProviderCreate(createOutcome), addOutcome, nCarts + 1)
  IN /\ thisCartId' = got.cartId
     /\ nCarts' = IF got.creates = 1 /\ got.cartId # thisCartId
                  THEN nCarts + 1 ELSE nCarts
     /\ call' = [method |-> "addItem", before |-> thisCartId,
                 fetch |-> IF got.fetches = 1 THEN fetchOutcome ELSE "none",
                 create |-> IF got.creates = 1 THEN ProviderCreate(createOutcome)
                            ELSE "none",
                 add |-> IF got.adds = 1 THEN addOutcome ELSE "none",
                 result |-> got.cart, fetches |-> got.fetches,
                 creates |-> got.creates, adds |-> got.adds,
                 target |-> got.target]
     /\ ServiceFrame

\* updateQuantity or removeItem called on the service
ServiceMutate(method, answer, mutated) ==
  /\ call' = [NoServiceCall EXCEPT
                !.method = method, !.before = thisCartId,
                !.add = IF mutated.requests = 1 THEN answer ELSE "none",
                !.adds = mutated.requests, !.result = mutated.cart,
                !.target = IF mutated.requests = 1 THEN thisCartId ELSE 0]
  /\ thisCartId' = mutated.cartId
  /\ UNCHANGED nCarts
  /\ ServiceFrame

ServiceUpdateQuantity(answer) ==
  ServiceMutate("updateQuantity", answer, serviceUpdateQuantity(thisCartId, answer))

ServiceRemoveItem(answer) ==
  ServiceMutate("removeItem", answer, serviceRemoveItem(thisCartId, answer))

NextService ==
  \/ \E id \in RemoteCarts : ServiceSetCartId(id)
  \/ \E answer \in CreateOutcomes : ServiceCreateCart(answer)
  \/ \E answer \in FetchOutcomes : ServiceGetCart(answer)
  \/ \E fetchOutcome \in FetchOutcomes, createOutcome \in CreateOutcomes :
       ServiceGetOrCreateCart(fetchOutcome, createOutcome)
  \/ \E fetchOutcome \in FetchOutcomes, createOutcome \in CreateOutcomes,
        addOutcome \in AddOutcomes :
       ServiceAddItem(fetchOutcome, createOutcome, addOutcome)
  \/ \E answer \in AddOutcomes : ServiceUpdateQuantity(answer)
  \/ \E answer \in AddOutcomes : ServiceRemoveItem(answer)

SpecService == Init /\ [][NextService]_vars

(***************************************************************************)
(* SpecMutate: updateQuantity and removeItem of a service, with and        *)
(* without a known cart id, and the PATCH and DELETE routes of a browser   *)
(* session whose cookie is set by its POST requests                        *)
(***************************************************************************)
NextMutate ==
  \/ \E id \in RemoteCarts : ServiceSetCartId(id)
  \/ \E answer \in AddOutcomes : ServiceUpdateQuantity(answer)
  \/ \E answer \in AddOutcomes : ServiceRemoveItem(answer)
  \/ \E answer \in AddOutcomes : ServerPatch(answer)
  \/ \E answer \in AddOutcomes : ServerDelete(answer)
  \/ NextRoute

SpecMutate == Init /\ [][NextMutate]_vars

TypeOK ==
  /\ \A i \in DOMAIN items : items[i].quantity \in LineQtys
  /\ isOpen \in BOOLEAN
  /\ now \in 0..MaxTime
  /\ pc \in {"idle", "awaiting", "redirected"}
  /\ isCheckingOut = (pc = "awaiting")
  /\ (request # <<>> \/ response # <<>>) => pc = "awaiting"
  /\ cookie \in 0..nCarts
  /\ nCarts \in 0..MaxCarts

(***************************************************************************)
(* Properties of the local cart store                                      *)
(***************************************************************************)
\* no line of the cart has the id itemId
UnknownId(itemId) == \A i \in DOMAIN items : items[i].id # itemId

\* the last two store calls were addItem(P, q1, V) and addItem(P, q2, V')
TwoAdds == last.cur.isAdd /\ last.prev.isAdd

\* C1 (merge invariant): after addItem(P, q1, V) followed by addItem(P, q2, V),
\* both resolving to the same variant id, the cart holds exactly one line for
\* (P, V), and its quantity is q1 + q2 on top of what the cart held for (P, V)
\* before the first call (nothing, when the first call created the line).
C1_MergeInvariant ==
  (TwoAdds /\ last.prev.vid = last.cur.vid) =>
    /\ Cardinality(LinesFor(items, last.cur.pid, last.cur.vid)) = 1
    /\ QuantityFor(items, last.cur.pid, last.cur.vid) = last.cur.expect

\* two addItem calls for the same (P, V) left one line of quantity 2 for it,
\* the only line of the cart
C1_Witness ==
  /\ TwoAdds
  /\ last.prev.vid = last.cur.vid
  /\ last.prev.expect = 1
  /\ last.cur.expect = 2
  /\ Len(items) = 1
  /\ items[1].quantity = 2

\* C2 (non-negative quantity invariant): every line of the cart has a
\* quantity of at least 1, whatever quantity addItem was called with.
C2_QuantityAtLeastOne == \A i \in DOMAIN items : items[i].quantity >= 1

\* C3: a call of updateQuantity or removeItem that removes the last line of
\* the cart leaves an empty line list and all five totals at zero.
C3_EmptiedCartHasZeroTotals ==
  [][((\/ \E itemId \in IdArgs : StoreRemoveItem(itemId)
       \/ \E itemId \in IdArgs, quantity \in LineQtys :
            StoreUpdateQuantity(itemId, quantity))
      /\ items # <<>> /\ items' = <<>>)
     => Totals' = ZeroTotals]_vars

\* C4 (totals purity): after every mutation of the store the stored totals
\* are the totals recomputed from the current line list alone.
C4_TotalsPurity ==
  [][((\/ \E product \in Catalog, quantity \in QtyArgs :
            \E variantId \in VariantArgs(product) :
              StoreAddItem(product, quantity, variantId)
       \/ \E itemId \in IdArgs, quantity \in LineQtys :
            StoreUpdateQuantity(itemId, quantity)
       \/ \E itemId \in IdArgs : StoreRemoveItem(itemId)
       \/ StoreClearCart)
      => Totals' = calculateTotals(items'))]_vars

\* C5 (rehydration idempotence): a page load that rehydrates the store from
\* what the last mutation persisted restores the same line list and the same
\* five totals the store held before the page load.
C5_RehydrationIdempotent ==
  [][(loaded' /\ storage # <<>>) => (items' = items /\ Totals' = Totals)]_vars

\* C7: no two lines of the cart have the same id.
C7_LineIdsUnique ==
  \A i, j \in DOMAIN items : i # j => items[i].id # items[j].id

\* C8: updateQuantity and removeItem called with an id that matches no line
\* leave the line list, the five totals and isOpen unchanged.
C8_UnknownIdIsNoOp ==
  [][(\E itemId \in IdArgs :
        /\ UnknownId(itemId)
        /\ \/ StoreRemoveItem(itemId)
           \/ \E quantity \in LineQtys : StoreUpdateQuantity(itemId, quantity))
     => UNCHANGED storeVars]_vars

\* C10 (distinctness invariant): after addItem(P, q, V1) followed by
\* addItem(P, q, V2) with V1 # V2 the cart holds one line for (P, V1) and a
\* different line for (P, V2), each with quantity q on top of what the cart
\* held for that variant before (nothing, when the call created the line).
\* The formula states it for any two quantities, q1 = q2 = q included.
C10_DistinctnessInvariant ==
  (TwoAdds /\ last.prev.vid # last.cur.vid) =>
    LET l1 == LinesFor(items, last.cur.pid, last.prev.vid)
        l2 == LinesFor(items, last.cur.pid, last.cur.vid)
    IN /\ Cardinality(l1) = 1
       /\ Cardinality(l2) = 1
       /\ l1 \cap l2 = {}
       /\ QuantityFor(items, last.cur.pid, last.prev.vid) = last.prev.expect
       /\ QuantityFor(items, last.cur.pid, last.cur.vid) = last.cur.expect

\* two addItem calls of the same quantity for two variants of a product left
\* two lines of quantity 1, the only lines of the cart
C10_Witness ==
  /\ TwoAdds
  /\ last.prev.vid # last.cur.vid
  /\ last.prev.expect = 1
  /\ last.cur.expect = 1
  /\ Len(items) = 2
  /\ items[1].variantId = last.prev.vid
  /\ items[2].variantId = last.cur.vid
  /\ items[1].quantity = 1
  /\ items[2].quantity = 1

(***************************************************************************)
(* Properties of the checkout                                              *)
(***************************************************************************)
\* C6 as claimed: when a checkout has failed (a remote call failed, or no
\* checkout URL was obtained), the line list and the totals are exactly what
\* they were when that checkout started, and an error is shown.
C6_FailedCheckoutCartAsAtStart ==
  outcome = "failed" =>
    /\ items = startItems
    /\ Totals = startTotals
    /\ checkoutError # Null

\* C6 as amended: a failing handleCheckout never changes the line list or the
\* totals itself, so when a checkout has failed an error is shown and the line
\* list and totals are what they were when it started, unless the shopper
\* changed the cart with the controls of the drawer while the checkout ran.
C6_FailedCheckoutKeepsCart ==
  /\ [](outcome = "failed" =>
          /\ checkoutError # Null
          /\ ~touched => (items = startItems /\ Totals = startTotals))
  /\ [][((CheckoutClick \/ CheckoutResponse) /\ outcome' # "redirected")
        => (items' = items /\ Totals' = Totals)]_vars

\* a checkout of two lines has failed on a remote call, the cart untouched
C6_Witness ==
  /\ outcome = "failed"
  /\ ~touched
  /\ Len(startItems) = 2
  /\ items = startItems
  /\ checkoutError = "Failed to add item to cart"

\* C9 as claimed: once the cart-id cookie is set, no further remote cart is
\* created and the cookie keeps naming the same remote cart.
C9_NoSecondRemoteCart ==
  [][cookie # 0 => (nCarts' = nCarts /\ cookie' = cookie)]_vars

\* C9 as amended: a POST /api/cart that carries the cart-id cookie and whose
\* fetch of that cart succeeds creates no remote cart, adds its line to the
\* cart of the cookie and leaves the cookie naming it; a remote cart is only
\* created when there is no cookie or the fetch of its cart failed.
C9_ResumesFetchedCart ==
  [][ServerPost =>
       /\ (cookie # 0 /\ srvLog'.fetched) =>
            /\ nCarts' = nCarts
            /\ srvLog'.target = cookie
            /\ cookie' = cookie
       /\ nCarts' # nCarts => (cookie = 0 \/ ~srvLog'.fetched)]_vars

\* a request that carried the cookie was added to the cart of the cookie
C9_Witness ==
  /\ srvLog.cartIdIn # 0
  /\ srvLog.fetched
  /\ srvLog.added
  /\ srvLog.target = srvLog.cartIdIn
  /\ cookie = srvLog.cartIdIn
  /\ nCarts = 1

(***************************************************************************)
(* Properties of updateQuantity, clearCart and the totals                  *)
(***************************************************************************)
\* the line list without its line at index i
WithoutLine(its, i) == [k \in 1..(Len(its) - 1) |-> IF k < i THEN its[k] ELSE its[k + 1]]

\* C11: updateQuantity(lineId, q) called with the id of the line at index i
\* removes that line from the list when q <= 0, and otherwise sets the
\* quantity of that line to exactly q; in both cases every other line of the
\* list is left as it was.
C11_UpdateQuantityOneLine ==
  [][\A itemId \in IdArgs, quantity \in LineQtys, i \in DOMAIN items :
       (StoreUpdateQuantity(itemId, quantity) /\ items[i].id = itemId)
         => items' = IF quantity <= 0
                     THEN WithoutLine(items, i)
                     ELSE [items EXCEPT ![i].quantity = quantity]]_vars

\* C12 (clear invariant): from every reachable state, clearCart() yields an
\* empty line list with itemCount, subtotal, tax, shipping and total all 0.
C12_ClearCartZeroes ==
  [][StoreClearCart => (items' = <<>> /\ Totals' = ZeroTotals)]_vars

\* clearCart was called on a cart of two lines and left the empty cart
C12_Witness ==
  /\ op = [name |-> "clearCart", lines |-> 2]
  /\ items = <<>>
  /\ Totals = ZeroTotals

\* the sum of f[i] over the indices i of S
RECURSIVE SumOver(_, _)
SumOver(f, S) ==
  IF S = {} THEN 0
  ELSE LET i == CHOOSE k \in S : TRUE IN f[i] + SumOver(f, S \ {i})

\* C13: after any sequence of addItem, updateQuantity, removeItem and
\* clearCart calls the stored itemCount is the sum of the quantities of the
\* current lines, and the stored subtotal is the sum over the current lines
\* of product price times quantity (whole cents, so already rounded to cents).
C13_CountAndSubtotal ==
  /\ itemCount = SumOver([i \in DOMAIN items |-> items[i].quantity], DOMAIN items)
  /\ subtotal = SumOver([i \in DOMAIN items |->
                           items[i].product.price * items[i].quantity],
                        DOMAIN items)

\* a cart of two lines of different quantities, counted and summed
C13_Witness ==
  /\ Len(items) = 2
  /\ items[1].quantity = 2
  /\ items[2].quantity = 1
  /\ items[1].product.price # items[2].product.price
  /\ itemCount = 3
  /\ subtotal = 2 * items[1].product.price + items[2].product.price

C15_TaxAndTotalOfRounded ==
  /\ tax = (subtotal * 85 + 500) \div 1000
  /\ total = subtotal + tax + shipping

(***************************************************************************)
(* Properties of the checkout sequence                                     *)
(***************************************************************************)
\* the lines of its that have a resolvable variant id
Resolvable(its) == {i \in DOMAIN its : Truthy(ResolveVariant(its[i]))}

\* the lines of the cart for which the checkout has issued a request
SentLines == {sent[k].line : k \in DOMAIN sent}

\* C16 (partial-cart policy): handleCheckout issues exactly one add-line
\* request for each line of the cart that has a resolvable variant id
\* (item.variantId, else the first variant of the product), in the order of
\* the lines and carrying that variant id and the quantity of the line, and
\* none for a line without one; such a line is skipped without aborting, so
\* a checkout whose requests all succeed ends with a checkout URL as soon as
\* the cart has one line with a variant id.
C16_PartialCartPolicy ==
  /\ [](\A k \in DOMAIN sent :
          /\ sent[k].line \in Resolvable(startItems)
          /\ sent[k].body.variantId = ResolveVariant(startItems[sent[k].line])
          /\ sent[k].body.quantity = startItems[sent[k].line].quantity
          /\ k < Len(sent) => sent[k].line < sent[k + 1].line)
  /\ [](outcome = "redirected" =>
          /\ SentLines = Resolvable(startItems)
          /\ Len(sent) = Cardinality(Resolvable(startItems))
          /\ checkoutUrl # 0)
  /\ [][((CheckoutClick \/ (CheckoutResponse /\ response[1].status = 200))
         /\ Resolvable(startItems') # {})
        => outcome' # "failed"]_vars

\* a checkout of three lines, the second without a variant id, has sent two
\* requests and ended with a checkout URL
C16_Witness ==
  /\ outcome = "redirected"
  /\ Len(startItems) = 3
  /\ Resolvable(startItems) = {1, 3}
  /\ Len(sent) = 2
  /\ SentLines = {1, 3}
  /\ checkoutUrl # 0

\* C17: within one checkout the remote calls are strictly sequential: a
\* request is issued only when the responses of all the requests issued before
\* have been read, so at most one request of the checkout is in flight at any
\* time, and the route (where carts are created) serves at most one request
\* of the checkout at a time.
C17_StrictlySequential ==
  /\ [](flight <= 1)
  /\ [](request # <<>> => (flight = 1 /\ response = <<>>))
  /\ [][(sent' # sent /\ sent' # <<>>)
        => (flight' = 1 /\ request = <<>> /\ response' = <<>>)]_vars

\* the request of the second line is in flight, the first has been answered
C17_Witness ==
  /\ pc = "awaiting"
  /\ Len(sent) = 2
  /\ flight = 1
  /\ request = <<sent[2].body>>
  /\ cookie # 0

\* C18: a single failed remote call aborts the rest of the checkout
\* sequence: when the response of an add-line request is not a success (or
\* the fetch throws), handleCheckout issues no request for the remaining
\* lines and does not retry, and the failure is shown as the checkout error;
\* no request is issued after it until the shopper clicks the button again.
C18_FailureAborts ==
  /\ [][(CheckoutResponse /\ response[1].status # 200)
        => /\ request' = <<>>
           /\ sent' = sent
           /\ flight' = 0
           /\ pc' = "idle"
           /\ outcome' = "failed"
           /\ checkoutError' = response[1].error
           /\ checkoutError' # Null]_vars
  /\ [][(outcome = "failed" /\ ((sent' # sent /\ sent' # <<>>) \/ request' # <<>>))
        => CheckoutClick]_vars

\* the request of the first of two lines with a variant id failed: the
\* second was never sent and the error is shown
C18_Witness ==
  /\ outcome = "failed"
  /\ Cardinality(Resolvable(startItems)) = 2
  /\ Len(sent) = 1
  /\ request = <<>>
  /\ checkoutError = "Failed to add item to cart"

(***************************************************************************)
(* Properties of ShopifyCartService                                        *)
(***************************************************************************)
\* C19: createCart records the remote cart id only on success: when the
\* provider returns a cart without errors the cartId of the service becomes
\* the id of that cart; when the request throws, returns GraphQL errors or a
\* non-empty userErrors list, createCart returns null and the cartId of the
\* service is what it was before the call.
C19_CreateCartRecordsOnSuccess ==
  call.method = "createCart" =>
    /\ call.create = "ok" => (call.result # 0 /\ thisCartId = call.result)
    /\ call.create \in {"throws", "errors", "userErrors"} =>
         (call.result = 0 /\ thisCartId = call.before)
    /\ thisCartId # call.before => call.create = "ok"

\* createCart failed with userErrors on a service that knew a cart: null is
\* returned and the known cart id is kept
C19_Witness ==
  /\ call.method = "createCart"
  /\ call.create = "userErrors"
  /\ call.before # 0
  /\ call.result = 0
  /\ thisCartId = call.before

\* C20: getOrCreateCart returns the known cart without a create call when a
\* cart id is known and fetching it succeeds; when no id is known or the
\* fetch fails it makes exactly one create call; the result is a remote cart,
\* and then the cartId of the service is the id of that cart, or null.
C20_GetOrCreateCart ==
  call.method = "getOrCreateCart" =>
    /\ (call.before # 0 /\ call.fetch = "ok") =>
         (call.result = call.before /\ call.creates = 0)
    /\ (call.before = 0 \/ call.fetch # "ok") => call.creates = 1
    /\ call.before = 0 => call.fetches = 0
    /\ call.result # 0 => thisCartId = call.result
    /\ call.result \in {0} \cup RemoteCarts

\* the fetch of the known cart found nothing: one create call was made and
\* the service now names the new cart
C20_Witness ==
  /\ call.method = "getOrCreateCart"
  /\ call.before # 0
  /\ call.fetch = "missing"
  /\ call.creates = 1
  /\ call.result # 0
  /\ call.result # call.before
  /\ thisCartId = call.result

\* C21: addItem of the service ensures a remote cart exists before adding:
\* the add-line mutation is only issued with the non-null id of the cart
\* getOrCreateCart returned (the fetched cart of the known id, or the cart
\* just created), and when getOrCreateCart fails no add-line mutation is
\* issued and null is returned.
C21_AddLineNeedsCart ==
  call.method = "addItem" =>
    LET fetched == call.before # 0 /\ call.fetch = "ok"
        created == call.create = "ok"
    IN /\ call.adds = 1 =>
            /\ call.target \in RemoteCarts
            /\ call.target = thisCartId
            /\ fetched \/ created
            /\ fetched => call.target = call.before
            /\ ~fetched => call.target = nCarts
       /\ (~fetched /\ ~created) => (call.adds = 0 /\ call.result = 0)

\* the known cart was gone and the provider refused to create one: no
\* add-line mutation was issued and null was returned
C21_Witness ==
  /\ call.method = "addItem"
  /\ call.before # 0
  /\ call.fetch = "missing"
  /\ call.create = "errors"
  /\ call.adds = 0
  /\ call.result = 0


Failures == {"throws", "errors", "userErrors"}

\* the answer to the request that the last call of the service issued itself
OwnAnswer == IF call.method = "createCart" THEN call.create ELSE call.add

(***************************************************************************)
(* C23: in createCart, addItem, updateQuantity and removeItem a thrown     *)
(* request, an errors value and a non-empty userErrors list each yield     *)
(* null, never a cart, and no call ends with an exception                  *)
(***************************************************************************)
C23_FailuresYieldNull ==
  /\ call.result # Thrown
  /\ (call.method \in {"createCart", "addItem", "updateQuantity", "removeItem"}
        /\ OwnAnswer \in Failures) => call.result = 0
  /\ (call.method = "addItem" /\ call.creates = 1 /\ call.create \in Failures) =>
        (call.result = 0 /\ call.adds = 0)

C23_Witness ==
  /\ call.method = "removeItem" /\ call.adds = 1 /\ call.add = "throws"
  /\ call.result = 0


\* the calls of the store that change its state
StoreMutations ==
  {"addItem", "updateQuantity", "removeItem", "clearCart", "toggleCart",
   "openCart", "closeCart"}

(***************************************************************************)
(* C24: after every mutation of the store the durable record holds the     *)
(* current line list and nothing else (neither isOpen nor a total), and a  *)
(* rehydrated store starts with isOpen = false                             *)
(***************************************************************************)
C24_DurableRecordIsItems ==
  /\ op.name \in StoreMutations =>
       /\ storage # <<>>
       /\ DOMAIN storage[1] = {"items"}
       /\ StoredItems(storage[1]) = items
  /\ op.name = "rehydrate" => ~isOpen

C24_Witness ==
  /\ op.name = "openCart" /\ isOpen /\ Len(items) = 2
  /\ DOMAIN storage[1] = {"items"} /\ StoredItems(storage[1]) = items


\* a step leaves the line list and the five totals as they were
SameCart == items' = items /\ Totals' = Totals

(***************************************************************************)
(* C25: openCart, closeCart and toggleCart leave the line list and the     *)
(* totals unchanged; openCart sets isOpen to true, closeCart to false and  *)
(* toggleCart negates it                                                   *)
(***************************************************************************)
C25_VisibilityOnly ==
  [][/\ StoreOpenCart => (isOpen' = TRUE /\ SameCart)
     /\ StoreCloseCart => (isOpen' = FALSE /\ SameCart)
     /\ StoreToggleCart => (isOpen' = ~isOpen /\ SameCart)]_vars

C25_Witness ==
  /\ op.name = "toggleCart" /\ ~isOpen /\ Len(items) = 2 /\ total > 0


(***************************************************************************)
(* SpecAttempt: the checkouts of SpecSequence with the drawer opened and   *)
(* closed and the route reduced to its answers, under the assumption that  *)
(* every fetch settles (the route answers or the request fails) and that   *)
(* the handler then resumes                                                *)
(***************************************************************************)
NextAttempt ==
  \/ PageLoad
  \/ UiOpenCart
  \/ UiCloseCart
  \/ CheckoutClick
  \/ CheckoutResponse
  \/ RouteResponds
  \/ NetworkError

SpecAttempt ==
  /\ InitSequence
  /\ [][NextAttempt]_vars
  /\ WF_vars(RouteResponds \/ NetworkError)
  /\ WF_vars(CheckoutResponse)

\* a step of handleCheckout that does not end in the redirect
AttemptStep == (CheckoutClick \/ CheckoutResponse) /\ pc' # "redirected"

(***************************************************************************)
(* C26: every checkout attempt ends, and one that fails ends in a state    *)
(* from which it can be retried: isCheckingOut is false, the button is     *)
(* enabled, an error message is set; the failed attempt does not change    *)
(* isOpen                                                                  *)
(***************************************************************************)
C26_FailedAttemptCanRetry ==
  /\ (pc = "awaiting") ~> (outcome \in {"failed", "redirected"})
  /\ (pc = "awaiting" /\ response # <<>> /\ ~ResponseOk(response[1]))
       ~> (outcome = "failed" /\ ~isCheckingOut /\ checkoutError # Null)
  /\ [](outcome = "failed" =>
          (~isCheckingOut /\ checkoutError # Null /\ CheckoutEnabled))
  /\ [][AttemptStep => isOpen' = isOpen]_vars

C26_Witness ==
  /\ outcome = "failed" /\ Len(sent) = 2 /\ isOpen
  /\ ~isCheckingOut /\ checkoutError # Null /\ CheckoutEnabled


(***************************************************************************)
(* SpecMerge: addItem called with the products of a catalog whose prices   *)
(* have changed since the lines of the cart were added.  A visit starts    *)
(* with a stored cart whose lines hold the old snapshots.                  *)
(***************************************************************************)
\* the changes of a price since the earlier visit, in cents
PriceChanges == {0, 500}

\* the products a caller may pass: those of the catalog at their prices
\* of the moment
Repriced == {[product EXCEPT !.price = product.price + d] :
               product \in Catalog, d \in PriceChanges}

\* addItem called; op also remembers the product that was passed and the
\* variant id the call resolved
MergeAddItem(product, quantity, variantId) ==
  /\ addItem(product, quantity, variantId)
  /\ loaded' = FALSE
  /\ op' = [name |-> "addItem", lines |-> Len(items), product |-> product,
            variantId |-> EffectiveVariantId(product, variantId)]
  /\ UNCHANGED otherVars

NextMerge ==
  \/ StoreRehydrate
  \/ \E product \in Repriced, quantity \in QtyArgs :
       \E variantId \in VariantArgs(product) :
         MergeAddItem(product, quantity, variantId)

SpecMerge == InitSequence /\ [][NextMerge]_vars

\* the lines of its that an addItem of product and the resolved variant id
\* merges into
MergeTargets(its, product, effectiveVariantId) ==
  {i \in DOMAIN its :
     its[i].product.id = product.id /\ its[i].variantId = effectiveVariantId}

(***************************************************************************)
(* C27: an addItem that merges into an existing line changes the quantity  *)
(* of that line only: its id, its product snapshot (the price captured     *)
(* when the line was added, whatever the price of the product passed now)  *)
(* and its variantId stay, and so do every other line and the order        *)
(***************************************************************************)
C27_MergeKeepsSnapshot ==
  [][(/\ op'.name = "addItem"
      /\ MergeTargets(items, op'.product, op'.variantId) # {}) =>
       /\ Len(items') = Len(items)
       /\ \A i \in DOMAIN items :
            /\ items'[i].id = items[i].id
            /\ items'[i].product = items[i].product
            /\ items'[i].variantId = items[i].variantId
            /\ i \notin MergeTargets(items, op'.product, op'.variantId) =>
                 items'[i] = items[i]]_vars

C27_Witness ==
  /\ op.name = "addItem" /\ op.lines = Len(items) /\ Len(items) = 3
  /\ \E i \in DOMAIN items :
       /\ items[i].product.id = op.product.id
       /\ items[i].variantId = op.variantId
       /\ items[i].product.price # op.product.price
       /\ items[i].quantity = 2


\* the quantity the add-line requests of the running checkout carried for
\* the variant vid
Submitted(vid) ==
  SumOver([k \in DOMAIN sent |-> sent[k].body.quantity],
          {k \in DOMAIN sent : sent[k].body.variantId = vid})

\* the quantity the lines of its hold for the variant vid
Held(its, vid) ==
  SumOver([i \in DOMAIN its |-> its[i].quantity],
          {i \in DOMAIN its : ResolveVariant(its[i]) = vid})

(***************************************************************************)
(* C28: when a checkout succeeds, every line the final clearCart removes   *)
(* has a variant id and the requests of the checkout carried, for that     *)
(* variant, every unit the removed lines hold: neither a change made while *)
(* the requests were in flight nor a line skipped for lack of a variant id *)
(* is dropped                                                              *)
(***************************************************************************)
C28_ClearedWasSubmitted ==
  [][(pc = "awaiting" /\ pc' = "redirected") =>
       \A i \in DOMAIN items :
         /\ Truthy(ResolveVariant(items[i]))
         /\ Held(items, ResolveVariant(items[i])) <= Submitted(ResolveVariant(items[i]))]_vars


(***************************************************************************)
(* SpecRetry: the checkouts of SpecSequence, again after a failure, with   *)
(* the quantities the provider's carts hold recorded                       *)
(***************************************************************************)
NextRetry ==
  \/ PageLoad
  \/ CheckoutClick
  \/ CheckoutResponse
  \/ ProviderPost
  \/ NetworkError

SpecRetry == InitSequence /\ [][NextRetry]_vars

(***************************************************************************)
(* C29: when a checkout succeeds, the remote cart of the checkout URL      *)
(* holds for each variant exactly the quantity the local cart held for it  *)
(* when the checkout started, also when the checkout is a retry after an   *)
(* attempt that failed part-way                                            *)
(***************************************************************************)
C29_RemoteCartMatchesLocal ==
  outcome = "redirected" =>
    \A v \in VariantIds : remote[checkoutUrl][v] = Held(startItems, v)


(***************************************************************************)
(* SpecLines: the line list of a cart that starts empty and is changed by  *)
(* addItem, updateQuantity, removeItem and clearCart only                  *)
(***************************************************************************)
NextLines ==
  \/ \E product \in Catalog, quantity \in QtyArgs :
       \E variantId \in VariantArgs(product) :
         StoreAddItem(product, quantity, variantId)
  \/ \E itemId \in IdArgs, quantity \in LineQtys : StoreUpdateQuantity(itemId, quantity)
  \/ \E itemId \in IdArgs : StoreRemoveItem(itemId)
  \/ StoreClearCart
  \/ StoreTick

SpecLines == Init /\ [][NextLines]_vars

\* what addItem keys a line on
LineKey(item) == <<item.product.id, item.variantId>>

\* the keys of the lines of its, in the order of the lines
LineKeys(its) == [i \in DOMAIN its |-> LineKey(its[i])]

\* the keys of ks that also occur in others, in the order of ks
Surviving(ks, others) ==
  SelectSeq(ks, LAMBDA k : \E i \in DOMAIN others : others[i] = k)

(***************************************************************************)
(* C30: from the empty cart, addItem, updateQuantity, removeItem and       *)
(* clearCart keep the (product.id, variantId) pairs of the lines distinct, *)
(* and the lines in the order of their insertion: a step keeps the         *)
(* relative order of the lines that survive it and puts a new line last    *)
(***************************************************************************)
C30_DistinctKeysInsertionOrder ==
  /\ [](\A i, j \in DOMAIN items : i # j => LineKey(items[i]) # LineKey(items[j]))
  /\ [][items' # items =>
          LET old == LineKeys(items)
              new == LineKeys(items')
          IN /\ Surviving(new, old) = Surviving(old, new)
             /\ \A i \in 1..(Len(new) - 1) : \E k \in DOMAIN old : old[k] = new[i]]_vars

C30_Witness ==
  /\ Len(items) = 3 /\ items[1].quantity = 2 /\ items[1].id < items[3].id
  /\ LineKey(items[1]) = <<"p1", "v2">> /\ LineKey(items[2]) = <<"p2", Undefined>>

====
